---- MODULE Spec2Model ----
(***************************************************************************)
(* A model of swr_rs, a software rasteriser: the Device (back buffer and   *)
(* depth buffer) of src/main.rs with its clear, plot, draw_line_aa and     *)
(* draw_triangle operations, and the Matrix4 product of src/math/matrix.rs.*)
(*                                                                         *)
(* f64 values are modelled as exact extended rationals <<n, d>>: d > 0 and *)
(* gcd(n, d) = 1 for a finite value, <<1,0>> and <<-1,0>> for the two      *)
(* infinities and <<0,0>> for NaN.  Rounding error of f64 arithmetic is    *)
(* not modelled; division by zero, NaN comparisons and the float-to-int    *)
(* casts are.                                                              *)
(***************************************************************************)
EXTENDS Integers, Sequences, FiniteSets, TLC

VARIABLES
    width, height,      \* Device.width, Device.height
    backbuffer,         \* Device.backbuffer: offset -> packed ARGB, as 4 bytes
    depthbuffer,        \* Device.depthbuffer: offset -> f64
    fault,              \* a panic (index out of range, i32 overflow) has ended the program
    overflow_checks,    \* the build panics on integer overflow (debug) or wraps (release)
    clearColor,         \* history: the colour of the last clear (0 after new)
    log,                \* history: the draw calls since the last clear
    plots,              \* history: the plot calls of the last line or plot call
    erased,             \* history: the draw calls the last clear wiped, 0 once drawing resumes
    ma, mb, mprod, msteps,   \* two Matrix4 values, their product, products chained
    tri, pix, cls, wts, \* a triangle, a pixel, the verdict of the inside test, the weights
    coords, trans, screen,   \* two Vector3, a Matrix4, the two projected to the screen
    slices, stacks, mesh, fi, \* the arguments of Mesh::shell, its mesh, faces indexed so far
    va, vb, vc,         \* two Vector3, and their cross products a x b and b x a
    camera, meshes,     \* the arguments of render: view and projection, the mesh list
    rpc, mi, rfi,       \* render: its position, meshes begun, faces done in the mesh
    transform_mat,      \* render: world_mat * view_mat * projection_mat of the mesh
    visits, lines       \* history: the faces processed, the three lines of the last

vars == <<width, height, backbuffer, depthbuffer, fault, overflow_checks, clearColor, log, plots,
          erased, ma, mb, mprod, msteps, tri, pix, cls, wts, coords, trans, screen,
          slices, stacks, mesh, fi, va, vb, vc,
          camera, meshes, rpc, mi, rfi, transform_mat, visits, lines>>

devVars == <<width, height, backbuffer, depthbuffer, fault, overflow_checks,
             clearColor, log, plots, erased>>
matVars == <<ma, mb, mprod, msteps>>
insVars == <<tri, pix, cls, wts>>
projVars == <<coords, trans, screen>>
meshVars == <<slices, stacks, mesh, fi>>
vecVars == <<va, vb, vc>>
renVars == <<camera, meshes, rpc, mi, rfi, transform_mat, visits, lines>>
auxVars == <<projVars, meshVars, vecVars, renVars>>

----------------------------------------------------------------------------
(* Bounds of the model.                                                    *)

\* Device::new(width, height) of the triangle and plot specifications.
TriWidth == 4
TriHeight == 3
\* Device::new(width, height) of the line specification.
LineWidth == 12
LineHeight == 3
\* Draw calls between two clears.
MaxTriDraws == 2
MaxLineDraws == 1
MaxPlots == 1
\* The largest slices and stacks handed to Mesh::shell.
MaxSlices == 4
MaxStacks == 4
\* The meshes handed to one render call.
MaxMeshes == 2
\* Matrix products chained from the initial pair.
MaxMatSteps == 1
\* The pixel grid 0..GridMax x 0..GridMax of the inside-test specification.
GridMax == 11

----------------------------------------------------------------------------
(* f64 arithmetic on extended rationals.                                   *)

Sgn(n) == IF n > 0 THEN 1 ELSE IF n < 0 THEN -1 ELSE 0
Abs(n) == IF n < 0 THEN -n ELSE n

RECURSIVE GCD(_, _)
GCD(a, b) == IF b = 0 THEN a ELSE GCD(b, a % b)

Norm(n, d) ==
    IF d = 0 THEN <<Sgn(n), 0>>
    ELSE LET g == GCD(Abs(n), Abs(d))
             s == Sgn(d)
         IN  <<(s * n) \div g, (s * d) \div g>>

R(n) == <<n, 1>>
Frac(n, d) == Norm(n, d)
NaN == <<0, 0>>
IsNaN(a) == a = NaN
IsFinite(a) == a[2] # 0

RNeg(a) == <<-a[1], a[2]>>

RAdd(a, b) ==
    IF a[2] = 0 /\ b[2] = 0
    THEN (IF a = b THEN a ELSE NaN)
    ELSE Norm(a[1] * b[2] + b[1] * a[2], a[2] * b[2])

RSub(a, b) == RAdd(a, RNeg(b))

RMul(a, b) == Norm(a[1] * b[1], a[2] * b[2])

\* x / 0.0 is +-inf by the sign of x and 0.0 / 0.0 is NaN.
RDiv(a, b) ==
    IF IsNaN(a) \/ IsNaN(b) THEN NaN
    ELSE IF a[2] = 0
    THEN (IF b[2] = 0 THEN NaN
          ELSE <<a[1] * (IF b[1] < 0 THEN -1 ELSE 1), 0>>)
    ELSE Norm(a[1] * b[2], a[2] * b[1])

\* a < b; every comparison with NaN is false.
RLt(a, b) ==
    IF IsNaN(a) \/ IsNaN(b) THEN FALSE
    ELSE IF a[2] = 0 /\ b[2] = 0 THEN a[1] < b[1]
    ELSE a[1] * b[2] < b[1] * a[2]

RGt(a, b) == RLt(b, a)
RLe(a, b) == ~IsNaN(a) /\ ~IsNaN(b) /\ ~RLt(b, a)
RGe(a, b) == RLe(b, a)

RAbs(a) == <<Abs(a[1]), a[2]>>

\* f64::max and f64::min return the other operand when one is NaN.
RMax(a, b) == IF IsNaN(a) THEN b ELSE IF IsNaN(b) THEN a
              ELSE IF RLt(a, b) THEN b ELSE a
RMin(a, b) == IF IsNaN(a) THEN b ELSE IF IsNaN(b) THEN a
              ELSE IF RLt(b, a) THEN b ELSE a

\* f64::trunc of a finite value, as an integer.
TruncInt(a) == IF a[1] >= 0 THEN a[1] \div a[2] ELSE -((-a[1]) \div a[2])

\* f64::round: to the nearest integer, halves away from zero.
FRound(a) ==
    IF ~IsFinite(a) THEN a
    ELSE IF a[1] >= 0 THEN R((2 * a[1] + a[2]) \div (2 * a[2]))
    ELSE R(-((2 * (-a[1]) + a[2]) \div (2 * a[2])))

\* f64::fract: x - x.trunc(); NaN for an infinity or NaN.
FFract(a) == IF ~IsFinite(a) THEN NaN ELSE RSub(a, R(TruncInt(a)))

\* The casts `as i32`, `as u32`, `as u8`: truncate toward zero, saturate,
\* NaN to 0.  A u32 is kept as its four bytes <<b3, b2, b1, b0>>, most
\* significant first; the finite values of the model stay below 2^31.
I32Max == 2147483647
Clip(n, lo, hi) == IF n < lo THEN lo ELSE IF n > hi THEN hi ELSE n
CastInt(a, lo, hi) ==
    IF IsNaN(a) THEN 0
    ELSE IF a[2] = 0 THEN (IF a[1] > 0 THEN hi ELSE lo)
    ELSE Clip(TruncInt(a), lo, hi)
AsI32(a) == CastInt(a, -I32Max - 1, I32Max)
AsU8(a) == CastInt(a, 0, 255)
Bytes(n) == <<(n \div 16777216) % 256, (n \div 65536) % 256,
              (n \div 256) % 256, n % 256>>
AsU32(a) ==
    IF a = <<1, 0>> THEN <<255, 255, 255, 255>>
    ELSE Bytes(CastInt(a, 0, I32Max))
\* `as u32` of a loop bound, as an integer.
AsU32Index(a) == CastInt(a, 0, I32Max)

\* Bitwise or of two bytes, and `|` and `<<` on u32 values.
RECURSIVE BitOr(_, _)
BitOr(a, b) ==
    IF a = 0 THEN b
    ELSE IF b = 0 THEN a
    ELSE (IF a % 2 = 1 \/ b % 2 = 1 THEN 1 ELSE 0)
         + 2 * BitOr(a \div 2, b \div 2)
Or32(u, v) == <<BitOr(u[1], v[1]), BitOr(u[2], v[2]),
               BitOr(u[3], v[3]), BitOr(u[4], v[4])>>
Shl32(u, k) ==
    IF k = 8 THEN <<u[2], u[3], u[4], 0>>
    ELSE IF k = 16 THEN <<u[3], u[4], 0, 0>>
    ELSE IF k = 24 THEN <<u[4], 0, 0, 0>>
    ELSE u

----------------------------------------------------------------------------
(* src/main.rs: the helpers of the line rasteriser.                        *)

round(x) == FRound(RAdd(x, Frac(1, 2)))
fpart(x) == RAbs(FFract(x))
rfpart(x) == RSub(R(1), fpart(x))

----------------------------------------------------------------------------
(* src/main.rs: Device.                                                    *)

\* The device as one value, for the operators below.
Dev == [width |-> width, height |-> height, backbuffer |-> backbuffer,
        depthbuffer |-> depthbuffer, fault |-> fault]

Offsets(w, h) == 0 .. (w * h - 1)

\* Device::new: both buffers zeroed.
DeviceNew(w, h) ==
    [width |-> w, height |-> h,
     backbuffer |-> [i \in Offsets(w, h) |-> Bytes(0)],
     depthbuffer |-> [i \in Offsets(w, h) |-> R(0)],
     fault |-> FALSE]

\* Mutant of DevClear: the depth buffer is not reset.
DevClearKeepDepth(d, clear_color) ==
    [d EXCEPT !.backbuffer = [i \in DOMAIN d.backbuffer |-> clear_color]]

\* Device::clear.
DevClear(d, clear_color) ==
    [d EXCEPT !.backbuffer = [i \in DOMAIN d.backbuffer |-> clear_color],
              !.depthbuffer = [i \in DOMAIN d.depthbuffer |-> R(0)]]

\* The offset `y as usize * width + x as usize` of a pixel whose coordinates
\* were cast from i32 to u32: a negative coordinate becomes a value of at
\* least 2^31, so the offset lies beyond any buffer (-1 stands for it).
OffsetOf(d, x, y) == IF x < 0 \/ y < 0 THEN -1 ELSE y * d.width + x

\* Device::put_pixel: an unchecked offset; indexing the boxed slice out of
\* range panics.
PutPixel(d, x, y, color) ==
    LET offset == OffsetOf(d, x, y) IN
    IF d.fault THEN d
    ELSE IF offset \in DOMAIN d.backbuffer
    THEN [d EXCEPT !.backbuffer[offset] = color]
    ELSE [d EXCEPT !.fault = TRUE]

\* Mutant of PlotColor: the coverage is scaled by 256.
PlotColorScale256(c) ==
    LET c32 == AsU32(RMul(R(256), c)) IN
    Or32(Or32(Shl32(Bytes(255), 24), Shl32(c32, 16)),
         Or32(Shl32(c32, 8), c32))

\* The packed gray of Device::plot.
PlotColor(c) ==
    LET c32 == AsU32(RMul(R(255), c)) IN
    Or32(Or32(Shl32(Bytes(255), 24), Shl32(c32, 16)),
         Or32(Shl32(c32, 8), c32))

\* Mutant of PlotInBounds: x is not tested against the width.
PlotInBoundsNoWidth(d, x, y) == x >= 0 /\ y >= 0 /\ y < d.height

\* The bounds test of Device::plot.
PlotInBounds(d, x, y) == x >= 0 /\ y >= 0 /\ x < d.width /\ y < d.height

\* Device::plot.
DevPlot(d, x, y, c) ==
    IF PlotInBounds(d, x, y) THEN PutPixel(d, x, y, PlotColor(c)) ELSE d

----------------------------------------------------------------------------
(* src/main.rs: Device::draw_line_aa.  A point is [x, y] of rationals     *)
(* (the z of the Vector3 is not read).                                     *)

Pt(x, y) == [x |-> x, y |-> y]

\* steep, and the endpoints in the frame the loop steps over.
LineSteep(p1, p2) == RGt(RAbs(RSub(p2.y, p1.y)), RAbs(RSub(p2.x, p1.x)))

LineFrame(p1, p2) ==
    IF LineSteep(p1, p2)
    THEN [x0 |-> p1.y, y0 |-> p1.x, x1 |-> p2.y, y1 |-> p2.x]
    ELSE IF RGt(p1.x, p2.x)
    THEN [x0 |-> p2.x, y0 |-> p2.y, x1 |-> p1.x, y1 |-> p1.y]
    ELSE [x0 |-> p1.x, y0 |-> p1.y, x1 |-> p2.x, y1 |-> p2.y]

\* The locals of draw_line_aa up to its loop.
LineLocals(p1, p2) ==
    LET f == LineFrame(p1, p2)
        dx == RSub(f.x1, f.x0)
        dy == RSub(f.y1, f.y0)
        slope == RDiv(dy, dx)
        xend1 == round(f.x0)
        yend1 == RAdd(f.y0, RMul(slope, RSub(xend1, f.x0)))
        xend2 == round(f.x1)
        yend2 == RAdd(f.y1, RMul(slope, RSub(xend2, f.x1)))
    IN  [steep |-> LineSteep(p1, p2),
         x0 |-> f.x0, y0 |-> f.y0, x1 |-> f.x1, y1 |-> f.y1,
         slope |-> slope,
         yend1 |-> yend1, xgap1 |-> rfpart(RAdd(f.x0, Frac(1, 2))),
         xpxl1 |-> AsI32(xend1), ypxl1 |-> AsI32(yend1),
         intery |-> RAdd(yend1, slope),
         yend2 |-> yend2, xgap2 |-> fpart(RAdd(f.x1, Frac(1, 2))),
         xpxl2 |-> AsI32(xend2), ypxl2 |-> AsI32(yend2)]

\* One plot call [x, y, c]; in a steep line the two coordinates trade places.
PlotCall(steep, x, y, c) ==
    IF steep THEN [x |-> y, y |-> x, c |-> c] ELSE [x |-> x, y |-> y, c |-> c]

\* The i32 operations `a + 1` and `a - 1`: a build without overflow checks
\* wraps, a build with them panics ("attempt to add with overflow").
I32Min == -I32Max - 1
Inc32(a) == IF a = I32Max THEN I32Min ELSE a + 1
Dec32(a) == IF a = I32Min THEN I32Max ELSE a - 1
IncPanics(a) == overflow_checks /\ a = I32Max
DecPanics(a) == overflow_checks /\ a = I32Min

\* In a sequence of plot calls, the place where the function panicked.
Panic == [panic |-> TRUE]
IsPanic(call) == "panic" \in DOMAIN call

\* The two plot calls of one endpoint.
EndpointPlots(steep, xpxl, ypxl, yend, xgap) ==
    <<PlotCall(steep, xpxl, ypxl, RMul(rfpart(yend), xgap)),
      IF IncPanics(ypxl) THEN Panic
      ELSE PlotCall(steep, xpxl, Inc32(ypxl), RMul(fpart(yend), xgap))>>

\* The range of the stepping loop, `(xpxl1 + 1)..(xpxl2 - 1)`, as the first
\* value and the excluded end.
LoopFirst(l) == Inc32(l.xpxl1)
LoopEnd(l) == Dec32(l.xpxl2)
RangePanics(l) == IncPanics(l.xpxl1) \/ DecPanics(l.xpxl2)

\* intery after k further iterations of `intery = intery + slope`.
Advance(intery, slope, k) ==
    IF k = 0 THEN intery ELSE RAdd(intery, RMul(R(k), slope))

\* One of the k iterations from intery on panics at `intery as i32 + 1`:
\* intery moves one way, so the first and the last of them decide.
SkipPanics(intery, slope, k) ==
    \/ IncPanics(AsI32(intery))
    \/ IncPanics(AsI32(Advance(intery, slope, k - 1)))

\* The plot calls of the loop from x on, intery being the accumulated value.
\* The iterations of the columns below lo or from hi on are stepped over at
\* once, at most I32Max of them at a time: they add slope to intery and, when
\* the columns lie off the buffer, their plot calls fail the bounds test.
RECURSIVE LoopPlots(_, _, _, _, _, _, _)
LoopPlots(x, end, intery, slope, steep, lo, hi) ==
    IF x >= end THEN <<>>
    ELSE IF x < lo \/ x >= hi
    THEN LET to == IF x < lo /\ lo < end THEN lo ELSE end
             k == IF x < 0 /\ to > x + I32Max THEN I32Max ELSE to - x
         IN  IF SkipPanics(intery, slope, k) THEN <<Panic>>
             ELSE LoopPlots(x + k, end, Advance(intery, slope, k), slope, steep,
                            lo, hi)
    ELSE <<PlotCall(steep, x, AsI32(intery), rfpart(intery)),
           IF IncPanics(AsI32(intery)) THEN Panic
           ELSE PlotCall(steep, x, Inc32(AsI32(intery)), fpart(intery))>>
         \o LoopPlots(x + 1, end, RAdd(intery, slope), slope, steep, lo, hi)

\* The calls up to and including the first panic.
RECURSIVE UpToPanic(_)
UpToPanic(calls) ==
    IF calls = <<>> THEN <<>>
    ELSE IF IsPanic(Head(calls)) THEN <<Panic>>
    ELSE <<Head(calls)>> \o UpToPanic(Tail(calls))

\* The plot calls of draw_line_aa(p1, p2), in the order of the code, those
\* of the loop for the columns lo .. hi - 1.
LineCalls(p1, p2, lo, hi) ==
    LET l == LineLocals(p1, p2) IN
    UpToPanic(
        EndpointPlots(l.steep, l.xpxl1, l.ypxl1, l.yend1, l.xgap1)
        \o EndpointPlots(l.steep, l.xpxl2, l.ypxl2, l.yend2, l.xgap2)
        \o (IF RangePanics(l) THEN <<Panic>>
            ELSE LoopPlots(LoopFirst(l), LoopEnd(l), l.intery, l.slope, l.steep,
                           lo, hi)))

\* Every plot call of draw_line_aa(p1, p2).
LinePlots(p1, p2) == LineCalls(p1, p2, I32Min, I32Max)

RECURSIVE ApplyPlots(_, _)
ApplyPlots(d, calls) ==
    IF calls = <<>> THEN d
    ELSE IF IsPanic(Head(calls)) THEN [d EXCEPT !.fault = TRUE]
    ELSE ApplyPlots(DevPlot(d, Head(calls).x, Head(calls).y, Head(calls).c),
                    Tail(calls))

\* Device::draw_line_aa: the loop's columns off the buffer (the rows, in a
\* steep line) are stepped over.
DevDrawLineAA(d, p1, p2) ==
    ApplyPlots(d, LineCalls(p1, p2, 0,
                            IF LineSteep(p1, p2) THEN d.height ELSE d.width))

----------------------------------------------------------------------------
(* src/main.rs: Device::draw_triangle, render_pixel and edge_func.  A      *)
(* vertex is [x, y, z] of rationals.                                       *)

Vx(x, y, z) == [x |-> x, y |-> y, z |-> z]

\* Mutant of edge_func: the constant term is subtracted.
edge_func_minus(v0, v1, p) ==
    RSub(RAdd(RMul(RSub(v0.y, v1.y), p.x), RMul(RSub(v1.x, v0.x), p.y)),
         RSub(RMul(v0.x, v1.y), RMul(v0.y, v1.x)))

\* edge_func(v0, v1, p).
edge_func(v0, v1, p) ==
    RAdd(RAdd(RMul(RSub(v0.y, v1.y), p.x), RMul(RSub(v1.x, v0.x), p.y)),
         RSub(RMul(v0.x, v1.y), RMul(v0.y, v1.x)))

\* Mutant of Weight: the edge value is not divided by the signed area.
WeightUnnormalised(e, a) == e

\* Mutant of Weight: a zero signed area gives the weight 1.0 instead of a
\* division by zero.
WeightOneOnZeroArea(e, a) == IF a = R(0) THEN R(1) ELSE RDiv(e, a)

\* One barycentric weight: an edge value over the signed area.
Weight(e, a) == RDiv(e, a)

\* Mutant of Weights: w1 is taken from edge_func(v0, v2, p).
WeightsSwappedEdge(v0, v1, v2, x, y) ==
    LET p == Pt(R(x), R(y))
        a == edge_func(v0, v1, v2)
    IN  <<Weight(edge_func(v1, v2, p), a),
          Weight(edge_func(v0, v2, p), a),
          Weight(edge_func(v0, v1, p), a)>>

\* w = (w0, w1, w2) of draw_triangle at the pixel (x, y).
Weights(v0, v1, v2, x, y) ==
    LET p == Pt(R(x), R(y))
        a == edge_func(v0, v1, v2)
    IN  <<Weight(edge_func(v1, v2, p), a),
          Weight(edge_func(v2, v0, p), a),
          Weight(edge_func(v0, v1, p), a)>>

\* The inside test: w0 >= 0.0 && w1 >= 0.0 && w2 >= 0.0.
InsideTest(w) == RGe(w[1], R(0)) /\ RGe(w[2], R(0)) /\ RGe(w[3], R(0))

\* The interpolated depth.
InterpZ(v0, v1, v2, w) ==
    RAdd(RAdd(RMul(v0.z, w[1]), RMul(v1.z, w[2])), RMul(v2.z, w[3]))

\* Mutants of DepthTest: the comparison reversed, and made non-strict.
DepthTestReversed(stored, z) == RGt(stored, z)
DepthTestNonStrict(stored, z) == RLe(stored, z)
\* Mutant of DepthTest: no test, the last triangle drawn wins.
DepthTestAlways(stored, z) == TRUE

\* The depth test: depthbuffer[offset] < z.
DepthTest(stored, z) == RLt(stored, z)

\* A reference colour component of render_pixel, clamped to [0, 1].
Clamp01(c) == RMin(RMax(c, R(0)), R(1))
RefA == <<Clamp01(Frac(3, 2)), Clamp01(Frac(3, 2)), Clamp01(Frac(3, 2))>>
RefB == <<Clamp01(R(0)), Clamp01(Frac(3, 2)), Clamp01(Frac(3, 2))>>
RefC == <<Clamp01(Frac(3, 2)), Clamp01(R(0)), Clamp01(Frac(3, 2))>>

\* The packed colour render_pixel writes for the weights w.
PixelColor(w) ==
    LET chan(i) == RMul(RAdd(RAdd(RMul(RefA[i], w[1]), RMul(RefB[i], w[2])),
                             RMul(RefC[i], w[3])), R(255))
        r == Bytes(AsU8(chan(1)))
        g == Bytes(AsU8(chan(2)))
        b == Bytes(AsU8(chan(3)))
    IN  Or32(Or32(Shl32(Bytes(255), 24), Shl32(r, 16)), Or32(Shl32(g, 8), b))

\* Device::render_pixel.
RenderPixel(d, x, y, w) == PutPixel(d, x, y, PixelColor(w))

\* Mutant of BBox: the upper corner is clamped one past the width.
BBoxPastWidth(d, v0, v1, v2) ==
    [xhi |-> AsU32Index(RMin(RMax(RMax(v0.x, v1.x), v2.x), R(d.width + 1))),
     yhi |-> AsU32Index(RMin(RMax(RMax(v0.y, v1.y), v2.y), R(d.height))),
     xlo |-> AsU32Index(RMax(RMin(RMin(v0.x, v1.x), v2.x), R(0))),
     ylo |-> AsU32Index(RMax(RMin(RMin(v0.y, v1.y), v2.y), R(0)))]

\* The bounding box of draw_triangle, clamped to the screen: the loops run
\* over ylo..(yhi - 1) and xlo..(xhi - 1).
BBox(d, v0, v1, v2) ==
    [xhi |-> AsU32Index(RMin(RMax(RMax(v0.x, v1.x), v2.x), R(d.width))),
     yhi |-> AsU32Index(RMin(RMax(RMax(v0.y, v1.y), v2.y), R(d.height))),
     xlo |-> AsU32Index(RMax(RMin(RMin(v0.x, v1.x), v2.x), R(0))),
     ylo |-> AsU32Index(RMax(RMin(RMin(v0.y, v1.y), v2.y), R(0)))]

\* The body of the two loops at the pixel (x, y).
TriPixel(d, v0, v1, v2, x, y) ==
    LET w == Weights(v0, v1, v2, x, y)
        z == InterpZ(v0, v1, v2, w)
        offset == y * d.width + x
    IN  IF d.fault \/ ~InsideTest(w) THEN d
        ELSE IF offset \notin DOMAIN d.depthbuffer
        THEN [d EXCEPT !.fault = TRUE]
        ELSE IF DepthTest(d.depthbuffer[offset], z)
        THEN RenderPixel([d EXCEPT !.depthbuffer[offset] = z], x, y, w)
        ELSE d

\* The loops from the pixel (x, y) on, row by row.
RECURSIVE TriLoop(_, _, _, _, _, _, _)
TriLoop(d, v0, v1, v2, box, x, y) ==
    IF y >= box.yhi THEN d
    ELSE IF x >= box.xhi THEN TriLoop(d, v0, v1, v2, box, box.xlo, y + 1)
    ELSE TriLoop(TriPixel(d, v0, v1, v2, x, y), v0, v1, v2, box, x + 1, y)

\* Device::draw_triangle.
DevDrawTriangle(d, v0, v1, v2) ==
    LET box == BBox(d, v0, v1, v2) IN
    TriLoop(d, v0, v1, v2, box, box.xlo, box.ylo)

----------------------------------------------------------------------------
(* src/math/matrix.rs: Matrix4, a record of the sixteen fields m11..m44.   *)

\* Matrix4::new: the arguments in row-major order.
Matrix4New(a11, a12, a13, a14, a21, a22, a23, a24, a31, a32, a33, a34, a41, a42, a43, a44) ==
    [m11 |-> a11, m12 |-> a12, m13 |-> a13, m14 |-> a14,
     m21 |-> a21, m22 |-> a22, m23 |-> a23, m24 |-> a24,
     m31 |-> a31, m32 |-> a32, m33 |-> a33, m34 |-> a34,
     m41 |-> a41, m42 |-> a42, m43 |-> a43, m44 |-> a44]

\* Mutant of Matrix4Identity: m44 is 0.0.
Matrix4IdentityM44Zero ==
    [m11 |-> R(1), m12 |-> R(0), m13 |-> R(0), m14 |-> R(0),
     m21 |-> R(0), m22 |-> R(1), m23 |-> R(0), m24 |-> R(0),
     m31 |-> R(0), m32 |-> R(0), m33 |-> R(1), m34 |-> R(0),
     m41 |-> R(0), m42 |-> R(0), m43 |-> R(0), m44 |-> R(0)]

\* Matrix4::identity.
Matrix4Identity ==
    [m11 |-> R(1), m12 |-> R(0), m13 |-> R(0), m14 |-> R(0),
     m21 |-> R(0), m22 |-> R(1), m23 |-> R(0), m24 |-> R(0),
     m31 |-> R(0), m32 |-> R(0), m33 |-> R(1), m34 |-> R(0),
     m41 |-> R(0), m42 |-> R(0), m43 |-> R(0), m44 |-> R(1)]

\* a * b + c * d + e * f + g * h, summed left to right as in the source.
Dot4(a, b, c, d, e, f, g, h) ==
    RAdd(RAdd(RAdd(RMul(a, b), RMul(c, d)), RMul(e, f)), RMul(g, h))

\* Mutant of Matrix4Mul: the operands are multiplied the other way round.
Matrix4MulSwapped(self, rhs) ==
    Matrix4New(
        Dot4(rhs.m11, self.m11, rhs.m12, self.m21, rhs.m13, self.m31, rhs.m14, self.m41),
        Dot4(rhs.m11, self.m12, rhs.m12, self.m22, rhs.m13, self.m32, rhs.m14, self.m42),
        Dot4(rhs.m11, self.m13, rhs.m12, self.m23, rhs.m13, self.m33, rhs.m14, self.m43),
        Dot4(rhs.m11, self.m14, rhs.m12, self.m24, rhs.m13, self.m34, rhs.m14, self.m44),
        Dot4(rhs.m21, self.m11, rhs.m22, self.m21, rhs.m23, self.m31, rhs.m24, self.m41),
        Dot4(rhs.m21, self.m12, rhs.m22, self.m22, rhs.m23, self.m32, rhs.m24, self.m42),
        Dot4(rhs.m21, self.m13, rhs.m22, self.m23, rhs.m23, self.m33, rhs.m24, self.m43),
        Dot4(rhs.m21, self.m14, rhs.m22, self.m24, rhs.m23, self.m34, rhs.m24, self.m44),
        Dot4(rhs.m31, self.m11, rhs.m32, self.m21, rhs.m33, self.m31, rhs.m34, self.m41),
        Dot4(rhs.m31, self.m12, rhs.m32, self.m22, rhs.m33, self.m32, rhs.m34, self.m42),
        Dot4(rhs.m31, self.m13, rhs.m32, self.m23, rhs.m33, self.m33, rhs.m34, self.m43),
        Dot4(rhs.m31, self.m14, rhs.m32, self.m24, rhs.m33, self.m34, rhs.m34, self.m44),
        Dot4(rhs.m41, self.m11, rhs.m42, self.m21, rhs.m43, self.m31, rhs.m44, self.m41),
        Dot4(rhs.m41, self.m12, rhs.m42, self.m22, rhs.m43, self.m32, rhs.m44, self.m42),
        Dot4(rhs.m41, self.m13, rhs.m42, self.m23, rhs.m43, self.m33, rhs.m44, self.m43),
        Dot4(rhs.m41, self.m14, rhs.m42, self.m24, rhs.m43, self.m34, rhs.m44, self.m44))

\* impl Mul for Matrix4: self * rhs.
Matrix4Mul(self, rhs) ==
    Matrix4New(
        Dot4(self.m11, rhs.m11, self.m12, rhs.m21, self.m13, rhs.m31, self.m14, rhs.m41),
        Dot4(self.m11, rhs.m12, self.m12, rhs.m22, self.m13, rhs.m32, self.m14, rhs.m42),
        Dot4(self.m11, rhs.m13, self.m12, rhs.m23, self.m13, rhs.m33, self.m14, rhs.m43),
        Dot4(self.m11, rhs.m14, self.m12, rhs.m24, self.m13, rhs.m34, self.m14, rhs.m44),
        Dot4(self.m21, rhs.m11, self.m22, rhs.m21, self.m23, rhs.m31, self.m24, rhs.m41),
        Dot4(self.m21, rhs.m12, self.m22, rhs.m22, self.m23, rhs.m32, self.m24, rhs.m42),
        Dot4(self.m21, rhs.m13, self.m22, rhs.m23, self.m23, rhs.m33, self.m24, rhs.m43),
        Dot4(self.m21, rhs.m14, self.m22, rhs.m24, self.m23, rhs.m34, self.m24, rhs.m44),
        Dot4(self.m31, rhs.m11, self.m32, rhs.m21, self.m33, rhs.m31, self.m34, rhs.m41),
        Dot4(self.m31, rhs.m12, self.m32, rhs.m22, self.m33, rhs.m32, self.m34, rhs.m42),
        Dot4(self.m31, rhs.m13, self.m32, rhs.m23, self.m33, rhs.m33, self.m34, rhs.m43),
        Dot4(self.m31, rhs.m14, self.m32, rhs.m24, self.m33, rhs.m34, self.m34, rhs.m44),
        Dot4(self.m41, rhs.m11, self.m42, rhs.m21, self.m43, rhs.m31, self.m44, rhs.m41),
        Dot4(self.m41, rhs.m12, self.m42, rhs.m22, self.m43, rhs.m32, self.m44, rhs.m42),
        Dot4(self.m41, rhs.m13, self.m42, rhs.m23, self.m43, rhs.m33, self.m44, rhs.m43),
        Dot4(self.m41, rhs.m14, self.m42, rhs.m24, self.m43, rhs.m34, self.m44, rhs.m44))

----------------------------------------------------------------------------
(* src/math/vector.rs: Vector3 and Vector4, records of rationals, and      *)
(* Device::project of src/main.rs.                                         *)

Vector3New(x, y, z) == [x |-> x, y |-> y, z |-> z]
Vector4New(x, y, z, w) == [x |-> x, y |-> y, z |-> z, w |-> w]

\* Vector3::transform: the row vector (x, y, z, 1) times the matrix.
Vector3Transform(vec, mat) ==
    Vector4New(
        RAdd(RAdd(RAdd(RMul(vec.x, mat.m11), RMul(vec.y, mat.m21)), RMul(vec.z, mat.m31)), mat.m41),
        RAdd(RAdd(RAdd(RMul(vec.x, mat.m12), RMul(vec.y, mat.m22)), RMul(vec.z, mat.m32)), mat.m42),
        RAdd(RAdd(RAdd(RMul(vec.x, mat.m13), RMul(vec.y, mat.m23)), RMul(vec.z, mat.m33)), mat.m43),
        RAdd(RAdd(RAdd(RMul(vec.x, mat.m14), RMul(vec.y, mat.m24)), RMul(vec.z, mat.m34)), mat.m44))

\* Mutant of Vector3Cross: the x component adds its two products.
Vector3CrossXSum(self, rhs) ==
    Vector3New(RAdd(RMul(self.y, rhs.z), RMul(self.z, rhs.y)),
               RSub(RMul(self.z, rhs.x), RMul(self.x, rhs.z)),
               RSub(RMul(self.x, rhs.y), RMul(self.y, rhs.x)))

\* Vector3::cross.
Vector3Cross(self, rhs) ==
    Vector3New(RSub(RMul(self.y, rhs.z), RMul(self.z, rhs.y)),
               RSub(RMul(self.z, rhs.x), RMul(self.x, rhs.z)),
               RSub(RMul(self.x, rhs.y), RMul(self.y, rhs.x)))

\* Vector4::xyz and the division of a Vector3 by an f64.
Vector4Xyz(v) == Vector3New(v.x, v.y, v.z)
Vector3Div(v, rhs) == Vector3New(RDiv(v.x, rhs), RDiv(v.y, rhs), RDiv(v.z, rhs))

\* Vector3::transform_coordinate: the transformed vector over its w.
TransformCoordinate(coord, transform) ==
    LET x == Vector3Transform(coord, transform) IN Vector3Div(Vector4Xyz(x), x.w)

\* Mutant of DevProject: the y of the point is not negated.
DevProjectNoFlip(d, coord, tr) ==
    LET point == TransformCoordinate(coord, tr) IN
    Vector3New(RAdd(RMul(point.x, R(d.width)), RDiv(R(d.width), R(2))),
               RAdd(RMul(point.y, R(d.height)), RDiv(R(d.height), R(2))),
               point.z)

\* Device::project.
DevProject(d, coord, tr) ==
    LET point == TransformCoordinate(coord, tr)
        x == RAdd(RMul(point.x, R(d.width)), RDiv(R(d.width), R(2)))
        y == RAdd(RMul(RNeg(point.y), R(d.height)), RDiv(R(d.height), R(2)))
    IN  Vector3New(x, y, point.z)

----------------------------------------------------------------------------
(* src/geometry/mesh.rs: Face and Mesh::shell.  The coordinates of the     *)
(* vertices (sines and cosines) are not modelled: a mesh is the number of  *)
(* vertices pushed and the sequence of its faces.                          *)

FaceNew(a, b, c) == [a |-> a, b |-> b, c |-> c]

\* The vertices pushed by `for v in 0..vertices_per_col` and
\* `for h in 0..vertices_per_row`.
ShellVertexCount(sl, st) ==
    LET vertices_per_row == sl + 1
        vertices_per_col == st + 1
    IN  Cardinality((0 .. (vertices_per_col - 1)) \X (0 .. (vertices_per_row - 1)))

\* The two faces pushed at (v, h).
ShellQuad(sl, v, h) ==
    LET vertices_per_row == sl + 1
        lt == h + v * vertices_per_row
        rt == (h + 1) + v * vertices_per_row
        lb == h + (v + 1) * vertices_per_row
        rb == (h + 1) + (v + 1) * vertices_per_row
    IN  <<FaceNew(lt, rt, lb), FaceNew(rt, rb, lb)>>

\* The faces pushed by `for v in 0..slices` and `for h in 0..stacks`, from
\* (v, h) on.
RECURSIVE ShellFaces(_, _, _, _)
ShellFaces(sl, st, v, h) ==
    IF v >= sl THEN <<>>
    ELSE IF h >= st THEN ShellFaces(sl, st, v + 1, 0)
    ELSE ShellQuad(sl, v, h) \o ShellFaces(sl, st, v, h + 1)

\* Mesh::shell(.., slices, stacks).
MeshShell(sl, st) ==
    [nvertices |-> ShellVertexCount(sl, st), faces |-> ShellFaces(sl, st, 0, 0)]

\* Mesh::triangle() and Mesh::cube().
MeshTriangle ==
    [vertices |-> <<Vector3New(R(-1), R(-1), R(-1)), Vector3New(R(1), R(-1), R(-1)),
                    Vector3New(R(1), R(1), R(-1))>>,
     faces |-> <<FaceNew(0, 1, 2)>>,
     position |-> Vector3New(R(0), R(0), R(0)),
     scale |-> Vector3New(R(1), R(1), R(1))]
MeshCube ==
    [vertices |-> <<Vector3New(R(-1), R(-1), R(-1)), Vector3New(R(1), R(-1), R(-1)),
                    Vector3New(R(1), R(1), R(-1)), Vector3New(R(-1), R(1), R(-1)),
                    Vector3New(R(-1), R(-1), R(1)), Vector3New(R(1), R(-1), R(1)),
                    Vector3New(R(1), R(1), R(1)), Vector3New(R(-1), R(1), R(1))>>,
     faces |-> <<FaceNew(0, 1, 2), FaceNew(2, 3, 0), FaceNew(1, 5, 6),
                 FaceNew(6, 2, 1), FaceNew(4, 7, 6), FaceNew(6, 5, 4),
                 FaceNew(0, 3, 7), FaceNew(7, 4, 0), FaceNew(5, 1, 0),
                 FaceNew(0, 4, 5), FaceNew(2, 6, 7), FaceNew(7, 3, 2)>>,
     position |-> Vector3New(R(0), R(0), R(0)),
     scale |-> Vector3New(R(1), R(1), R(1))]

----------------------------------------------------------------------------
(* src/math/matrix.rs and src/math/vector.rs: the matrices of render.      *)
(* Square roots and trigonometric functions are not modelled: only vectors *)
(* along one axis are normalised, a camera gives the tangent of half its   *)
(* field of view, and the rotation of every mesh is zero.                  *)

Vector3Sub(self, rhs) ==
    Vector3New(RSub(self.x, rhs.x), RSub(self.y, rhs.y), RSub(self.z, rhs.z))
Vector3Dot(self, rhs) ==
    RAdd(RAdd(RMul(self.x, rhs.x), RMul(self.y, rhs.y)), RMul(self.z, rhs.z))

\* Vector3::length of a vector with at most one non-zero component.
Vector3Length(v) == RAdd(RAdd(RAbs(v.x), RAbs(v.y)), RAbs(v.z))
\* Vector3::normalize: self / self.length().
Vector3Normalize(v) == Vector3Div(v, Vector3Length(v))

\* Matrix4::look_at_lh.
Matrix4LookAtLh(eye, target, up) ==
    LET zaxis == Vector3Normalize(Vector3Sub(target, eye))
        xaxis == Vector3Normalize(Vector3Cross(up, zaxis))
        yaxis == Vector3Normalize(Vector3Cross(zaxis, xaxis))
    IN  [Matrix4Identity EXCEPT
            !.m11 = xaxis.x, !.m21 = xaxis.y, !.m31 = xaxis.z,
            !.m12 = yaxis.x, !.m22 = yaxis.y, !.m32 = yaxis.z,
            !.m13 = zaxis.x, !.m23 = zaxis.y, !.m33 = zaxis.z,
            !.m41 = RNeg(Vector3Dot(xaxis, eye)),
            !.m42 = RNeg(Vector3Dot(yaxis, eye)),
            !.m43 = RNeg(Vector3Dot(zaxis, eye))]

\* Matrix4::perspective_rh, given tan(fov * 0.5).
Matrix4PerspectiveRh(tan_half_fov, aspect, znear, zfar) ==
    LET y_half_scale == RDiv(Frac(1, 2), tan_half_fov)
        x_half_scale == RDiv(y_half_scale, aspect)
        w == RDiv(znear, x_half_scale)
        h == RDiv(znear, y_half_scale)
        length == RSub(zfar, znear)
        znear_doubled == RMul(znear, R(2))
    IN  [Matrix4Identity EXCEPT
            !.m11 = RDiv(znear_doubled, w),
            !.m22 = RDiv(znear_doubled, h),
            !.m33 = RDiv(RSub(RNeg(zfar), znear), length),
            !.m43 = RDiv(RMul(RNeg(znear_doubled), zfar), length),
            !.m44 = R(0),
            !.m34 = R(-1)]

\* Matrix4::scale and Matrix4::translation.
Matrix4Scale(sc) == [Matrix4Identity EXCEPT !.m11 = sc.x, !.m22 = sc.y, !.m33 = sc.z]
Matrix4Translation(offset) ==
    [Matrix4Identity EXCEPT !.m41 = offset.x, !.m42 = offset.y, !.m43 = offset.z]

\* Matrix4::rotation(Quaternion::from_euler_angle(zero)): the quaternion is
\* (0, 0, 0, 1), so s = 2 and every product but w * w is 0.
Matrix4RotationZero == Matrix4Identity

\* world_mat * view_mat * projection_mat of render.
RenderTransform(d, cam, m) ==
    LET view_mat == Matrix4LookAtLh(cam.position, cam.target, Vector3New(R(0), R(1), R(0)))
        projection_mat ==
            Matrix4PerspectiveRh(cam.tan_half_fov, RDiv(R(d.width), R(d.height)),
                                 cam.znear, cam.zfar)
        world_mat == Matrix4Mul(Matrix4Mul(Matrix4Scale(m.scale), Matrix4RotationZero),
                                Matrix4Translation(m.position))
    IN  Matrix4Mul(Matrix4Mul(world_mat, view_mat), projection_mat)

\* The body of `for face in &mesh.faces`: three vertex lookups, three
\* projections and three lines.  A lookup out of range panics, and a panic
\* ends the body.
RenderFaceLines(d, m, face, tm) ==
    <<<<DevProject(d, m.vertices[face.a + 1], tm), DevProject(d, m.vertices[face.b + 1], tm)>>,
      <<DevProject(d, m.vertices[face.b + 1], tm), DevProject(d, m.vertices[face.c + 1], tm)>>,
      <<DevProject(d, m.vertices[face.c + 1], tm), DevProject(d, m.vertices[face.a + 1], tm)>>>>

RECURSIVE DrawLines(_, _)
DrawLines(d, ls) ==
    IF ls = <<>> \/ d.fault THEN d
    ELSE DrawLines(DevDrawLineAA(d, Head(ls)[1], Head(ls)[2]), Tail(ls))

FaceInRange(m, face) ==
    face.a < Len(m.vertices) /\ face.b < Len(m.vertices) /\ face.c < Len(m.vertices)

DevRenderFace(d, m, face, tm) ==
    IF ~FaceInRange(m, face) THEN [d EXCEPT !.fault = TRUE]
    ELSE DrawLines(d, RenderFaceLines(d, m, face, tm))

----------------------------------------------------------------------------
(* The device as a state machine.                                          *)

\* 0xff222222, the clear colour of main, and 0.
ClearColors == {<<255, 34, 34, 34>>, Bytes(0)}

SetDev(d) ==
    /\ width' = d.width
    /\ height' = d.height
    /\ backbuffer' = d.backbuffer
    /\ depthbuffer' = d.depthbuffer
    /\ fault' = d.fault

InitDev(w, h) ==
    /\ width = w
    /\ height = h
    /\ backbuffer = DeviceNew(w, h).backbuffer
    /\ depthbuffer = DeviceNew(w, h).depthbuffer
    /\ fault = FALSE
    /\ clearColor = Bytes(0)
    /\ log = <<>>
    /\ plots = <<>>
    /\ erased = 0

IdleDev ==
    /\ width = 0 /\ height = 0 /\ backbuffer = <<>> /\ depthbuffer = <<>>
    /\ fault = FALSE /\ overflow_checks = FALSE /\ clearColor = Bytes(0) /\ log = <<>> /\ plots = <<>>
    /\ erased = 0
IdleMat == ma = <<>> /\ mb = <<>> /\ mprod = <<>> /\ msteps = 0
IdleIns == tri = <<>> /\ pix = <<>> /\ cls = "none" /\ wts = <<>>
IdleProj == coords = <<>> /\ trans = <<>> /\ screen = <<>>
IdleMesh == slices = 0 /\ stacks = 0 /\ mesh = <<>> /\ fi = 0
IdleVec == va = <<>> /\ vb = <<>> /\ vc = <<>>
IdleRen ==
    /\ camera = <<>> /\ meshes = <<>> /\ rpc = "idle" /\ mi = 0 /\ rfi = 0
    /\ transform_mat = <<>> /\ visits = <<>> /\ lines = <<>>
IdleAux == IdleProj /\ IdleMesh /\ IdleVec /\ IdleRen

\* device.clear(color): log holds the draw calls since the last clear.
Clear ==
    /\ ~fault
    /\ \E color \in ClearColors :
          SetDev(DevClear(Dev, color)) /\ clearColor' = color
    /\ log' = <<>>
    /\ plots' = <<>>
    /\ erased' = Len(log)
    /\ UNCHANGED <<overflow_checks, matVars, insVars, auxVars>>

\* Coverages handed to plot: 0, 1/3, 1/2, 999/1000, 1, one above 1, and NaN.
PlotCoverages ==
    {R(0), Frac(1, 3), Frac(1, 2), Frac(999, 1000), R(1), R(2), NaN}

\* device.plot(x, y, c), with coordinates up to one past each edge and below 0.
Plot ==
    /\ ~fault
    /\ Len(log) < MaxPlots
    /\ \E x \in -1 .. (width + 1), y \in -1 .. (height + 1), c \in PlotCoverages :
          /\ SetDev(DevPlot(Dev, x, y, c))
          /\ log' = Append(log, [op |-> "plot", x |-> x, y |-> y, c |-> c])
          /\ plots' = <<[x |-> x, y |-> y, c |-> c]>>
    /\ erased' = 0
    /\ UNCHANGED <<overflow_checks, clearColor, matVars, insVars, auxVars>>

InitPlot == InitDev(TriWidth, TriHeight) /\ overflow_checks = FALSE /\ IdleMat /\ IdleIns /\ IdleAux
NextPlot == Clear \/ Plot
SpecPlot == InitPlot /\ [][NextPlot]_vars

\* Endpoints handed to draw_line_aa: on and off the buffer, on and between
\* pixel centres.
LinePoints ==
    {Pt(R(0), R(0)), Pt(R(10), R(0)), Pt(R(3), R(2)), Pt(R(1), R(-2)),
     Pt(Frac(5, 2), Frac(1, 2)), Pt(R(6), R(1)), Pt(R(2), R(4)),
     Pt(Frac(29, 4), Frac(3, 2)), Pt(R(4), R(0))}

\* device.draw_line_aa(p1, p2); plots is the trace of its plot calls.
DrawLineAA ==
    /\ ~fault
    /\ Len(log) < MaxLineDraws
    /\ \E p1 \in LinePoints, p2 \in LinePoints :
          /\ SetDev(DevDrawLineAA(Dev, p1, p2))
          /\ log' = Append(log, [op |-> "line", p1 |-> p1, p2 |-> p2])
          /\ plots' = LinePlots(p1, p2)
    /\ erased' = 0
    /\ UNCHANGED <<overflow_checks, clearColor, matVars, insVars, auxVars>>

InitLine ==
    InitDev(LineWidth, LineHeight) /\ overflow_checks \in BOOLEAN /\ IdleMat /\ IdleIns /\ IdleAux
NextLine == Clear \/ DrawLineAA
SpecLine == InitLine /\ [][NextLine]_vars

\* The screen triangles handed to draw_triangle, as the (x, y) of their
\* vertices: two overlapping halves of the screen (one wound each way), one reaching beyond
\* every edge, a collinear one and one with two coincident vertices.
TriShapes ==
    {<<Pt(R(0), R(0)), Pt(R(4), R(0)), Pt(R(0), R(3))>>,
     <<Pt(R(4), R(3)), Pt(R(3), R(0)), Pt(R(0), R(3))>>,
     <<Pt(R(-1), R(-2)), Pt(R(7), R(-1)), Pt(R(1), R(6))>>,
     <<Pt(R(0), R(0)), Pt(R(1), R(1)), Pt(R(3), R(3))>>,
     <<Pt(R(1), R(0)), Pt(R(1), R(0)), Pt(R(3), R(2))>>}

\* The depths of the three vertices: 0.8, 0.3 and -0.5 on a flat triangle,
\* and one that varies over the triangle from 0.0 to both sides.
DepthProfiles ==
    {<<Frac(8, 10), Frac(8, 10), Frac(8, 10)>>,
     <<Frac(3, 10), Frac(3, 10), Frac(3, 10)>>,
     <<Frac(-1, 2), Frac(-1, 2), Frac(-1, 2)>>,
     <<R(0), Frac(1, 2), Frac(-1, 2)>>}

\* The triangle of a shape and a depth profile.
MkTri(s, zs) ==
    <<Vx(s[1].x, s[1].y, zs[1]), Vx(s[2].x, s[2].y, zs[2]),
      Vx(s[3].x, s[3].y, zs[3])>>

\* device.draw_triangle(v0, v1, v2).
DrawTriangle ==
    /\ ~fault
    /\ Len(log) < MaxTriDraws
    /\ \E s \in TriShapes, zs \in DepthProfiles :
          LET t == MkTri(s, zs) IN
          /\ SetDev(DevDrawTriangle(Dev, t[1], t[2], t[3]))
          /\ log' = Append(log, [op |-> "tri", v0 |-> t[1], v1 |-> t[2],
                                 v2 |-> t[3]])
    /\ erased' = 0
    /\ UNCHANGED <<overflow_checks, clearColor, plots, matVars, insVars, auxVars>>

InitTri == InitDev(TriWidth, TriHeight) /\ overflow_checks = FALSE /\ IdleMat /\ IdleIns /\ IdleAux
NextTri == Clear \/ DrawTriangle
SpecTri == InitTri /\ [][NextTri]_vars

----------------------------------------------------------------------------
(* Claims about the depth-buffered triangle rasteriser (SpecTri).          *)

LogTri(i) == <<log[i].v0, log[i].v1, log[i].v2>>

\* The pixels the loops of draw_triangle visit for the triangle t.
Visited(t) ==
    LET box == BBox(Dev, t[1], t[2], t[3]) IN
    {xy \in (0 .. width) \X (0 .. height) :
        /\ box.xlo <= xy[1] /\ xy[1] < box.xhi
        /\ box.ylo <= xy[2] /\ xy[2] < box.yhi}

\* The triangle t passes the inside test at the visited pixel xy.
Covers(t, xy) ==
    /\ xy \in Visited(t)
    /\ InsideTest(Weights(t[1], t[2], t[3], xy[1], xy[2]))

ZAt(t, xy) == InterpZ(t[1], t[2], t[3], Weights(t[1], t[2], t[3], xy[1], xy[2]))
ColorAt(t, xy) == PixelColor(Weights(t[1], t[2], t[3], xy[1], xy[2]))
PixelOffset(xy) == xy[2] * width + xy[1]
Pixels == (0 .. (width - 1)) \X (0 .. (height - 1))

\* Two triangles drawn after a clear cover xy with depths 0.8 and 0.3, the
\* first of the pair (hi) being the one of depth 0.8.
NearFarAt(hi, lo, xy) ==
    /\ Covers(hi, xy) /\ ZAt(hi, xy) = Frac(8, 10)
    /\ Covers(lo, xy) /\ ZAt(lo, xy) = Frac(3, 10)

\* C1: after a clear and two draw_triangle calls that cover one pixel with
\* interpolated depths 0.8 and 0.3, in either order, the depth buffer holds
\* 0.8 at that pixel and the back buffer the colour of the depth-0.8 triangle.
C1_NearestWinsEitherOrder ==
    (Len(log) = 2 /\ log[1].op = "tri" /\ log[2].op = "tri") =>
        \A xy \in Pixels :
            \A k \in {1, 2} :
                NearFarAt(LogTri(k), LogTri(3 - k), xy) =>
                    /\ depthbuffer[PixelOffset(xy)] = Frac(8, 10)
                    /\ backbuffer[PixelOffset(xy)] = ColorAt(LogTri(k), xy)

\* C1 witness: the depth-0.3 triangle was drawn after the depth-0.8 one over a
\* pixel where the two write different colours, and the pixel kept the first.
C1_Witness ==
    /\ Len(log) = 2 /\ log[1].op = "tri" /\ log[2].op = "tri"
    /\ \E xy \in Pixels :
          /\ NearFarAt(LogTri(1), LogTri(2), xy)
          /\ ColorAt(LogTri(1), xy) # ColorAt(LogTri(2), xy)
          /\ backbuffer[PixelOffset(xy)] = ColorAt(LogTri(1), xy)

\* The first draw_triangle after a clear wrote the pixel xy.
FirstWrote(xy) ==
    /\ depthbuffer[PixelOffset(xy)] = ZAt(LogTri(1), xy)
    /\ backbuffer[PixelOffset(xy)] = ColorAt(LogTri(1), xy)

\* The pixel xy is as the clear left it.
AsCleared(xy) ==
    /\ depthbuffer[PixelOffset(xy)] = R(0)
    /\ backbuffer[PixelOffset(xy)] = clearColor

\* C2 as stated: the first draw_triangle after a clear writes the colour and
\* the depth of every pixel that passes its inside test, whatever the
\* interpolated depth there.
C2_FirstWriteAlwaysSucceeds ==
    (Len(log) = 1 /\ log[1].op = "tri") =>
        \A xy \in Pixels : Covers(LogTri(1), xy) => FirstWrote(xy)

\* C2 amended: the first draw_triangle after a clear writes a pixel that
\* passes its inside test exactly when the interpolated depth there is
\* greater than 0.0, the cleared depth; otherwise the pixel stays as cleared.
C2_FirstWriteIffPositiveDepth ==
    (Len(log) = 1 /\ log[1].op = "tri") =>
        \A xy \in Pixels :
            Covers(LogTri(1), xy) =>
                IF RGt(ZAt(LogTri(1), xy), R(0))
                THEN FirstWrote(xy)
                ELSE AsCleared(xy)

\* C2 witness: one triangle drawn after a clear wrote one pixel (depth above
\* 0.0) and left another it covers as cleared (depth exactly 0.0).
C2_Witness ==
    /\ Len(log) = 1 /\ log[1].op = "tri"
    /\ \E xy \in Pixels :
          /\ Covers(LogTri(1), xy) /\ RGt(ZAt(LogTri(1), xy), R(0))
          /\ FirstWrote(xy) /\ ~AsCleared(xy)
    /\ \E xy \in Pixels :
          /\ Covers(LogTri(1), xy) /\ ZAt(LogTri(1), xy) = R(0)
          /\ AsCleared(xy)

\* The offsets whose colour differs from the clear colour in the buffer bb.
WrittenIn(bb) == {o \in DOMAIN bb : bb[o] # clearColor}

\* The device after a clear to the last clear colour.
Cleared == DevClear(Dev, clearColor)

\* The device after draw_triangle(v0, v2, v1) on a cleared buffer, when log
\* holds draw_triangle(v0, v1, v2).
Rewound == DevDrawTriangle(Cleared, log[1].v0, log[1].v2, log[1].v1)

\* C7 as stated: when draw_triangle(v0, v1, v2) writes a pixel, the same
\* triangle wound the other way, draw_triangle(v0, v2, v1), writes none on an
\* equally cleared buffer.
C7_OppositeWindingNotDrawn ==
    (Len(log) = 1 /\ log[1].op = "tri" /\ WrittenIn(backbuffer) # {}) =>
        WrittenIn(Rewound.backbuffer) = {}

\* C7 amended: draw_triangle draws a triangle whichever way it is wound: on
\* an equally cleared buffer draw_triangle(v0, v2, v1) writes the same pixels
\* and the same depths as draw_triangle(v0, v1, v2).
C7_WindingIndependent ==
    (Len(log) = 1 /\ log[1].op = "tri") =>
        /\ WrittenIn(Rewound.backbuffer) = WrittenIn(backbuffer)
        /\ Rewound.depthbuffer = depthbuffer

\* C7 witness: a triangle of negative signed area (A < 0) was drawn after a
\* clear and wrote pixels.
C7_Witness ==
    /\ Len(log) = 1 /\ log[1].op = "tri"
    /\ RLt(edge_func(log[1].v0, log[1].v1, log[1].v2), R(0))
    /\ WrittenIn(backbuffer) # {}

----------------------------------------------------------------------------
(* Claims about plot and the anti-aliased line rasteriser (SpecPlot,       *)
(* SpecLine).                                                              *)

\* The coordinates (x, y) lie off the buffer.
OffBuffer(x, y) == x < 0 \/ y < 0 \/ x >= width \/ y >= height

\* C3: plot(x, y, c) with x < 0, y < 0, x >= width or y >= height leaves the
\* whole back buffer as it was (no write wrapped onto another row) and
\* raises no fault.
C3_PlotOutOfBoundsDropped ==
    (\A i \in 1 .. Len(log) :
        log[i].op = "plot" /\ OffBuffer(log[i].x, log[i].y)) =>
        /\ ~fault
        /\ \A o \in DOMAIN backbuffer : backbuffer[o] = clearColor

\* C3 witness: plot was called with x = width on a row of the buffer, with a
\* coverage whose colour is not the clear colour, and nothing changed.
C3_Witness ==
    /\ Len(log) = 1 /\ log[1].op = "plot"
    /\ log[1].x = width /\ log[1].y \in 0 .. (height - 1)
    /\ PlotColor(log[1].c) # clearColor
    /\ ~fault
    /\ \A o \in DOMAIN backbuffer : backbuffer[o] = clearColor

\* The plot calls of the trace that pass the bounds test, i.e. the pixels
\* written.
WrittenCalls == {i \in 1 .. Len(plots) : PlotInBounds(Dev, plots[i].x, plots[i].y)}

White == <<255, 255, 255, 255>>

\* C4 as stated: draw_line_aa from (0,0) to (10,0) writes pixels of row 0
\* only, every written pixel strictly between the endpoint columns 0 and 10
\* has intensity 255, and only the two endpoint pixels have a partial one.
C4_HorizontalLineRowZero ==
    (log = <<[op |-> "line", p1 |-> Pt(R(0), R(0)), p2 |-> Pt(R(10), R(0))]>>) =>
        /\ \A i \in WrittenCalls : plots[i].y = 0
        /\ \A i \in WrittenCalls :
              (0 < plots[i].x /\ plots[i].x < 10) => PlotColor(plots[i].c) = White
        /\ \A i \in WrittenCalls :
              PlotColor(plots[i].c) # White => plots[i].x \in {0, 10}

\* C5 as stated: for every pair of endpoints handed to draw_line_aa, steep or
\* not, the start of the swapped frame is not beyond its end, x0 <= x1.
C5_FrameStartsBeforeEnd ==
    \A i \in 1 .. Len(log) :
        log[i].op = "line" =>
            RLe(LineFrame(log[i].p1, log[i].p2).x0,
                LineFrame(log[i].p1, log[i].p2).x1)

\* The coordinate of a plot call along the primary axis of the line.
Primary(l, call) == IF l.steep THEN call.y ELSE call.x

\* C6 as stated: when the endpoint pixel columns are xpxl1 < xpxl2, every
\* integer position strictly between them receives exactly one plotted pair
\* of the loop.
C6_EveryInteriorColumnPlotted ==
    (Len(log) > 0 /\ log[Len(log)].op = "line") =>
        LET l == LineLocals(log[Len(log)].p1, log[Len(log)].p2) IN
        l.xpxl1 < l.xpxl2 =>
            \A x \in (l.xpxl1 + 1) .. (l.xpxl2 - 1) :
                Cardinality({j \in 5 .. Len(plots) : Primary(l, plots[j]) = x}) = 2

----------------------------------------------------------------------------
(* Matrix4 products as a state machine (SpecMat).                          *)

\* The matrix whose sixteen fields are the integers of s, row-major.
MatOf(s) ==
    Matrix4New(R(s[1]), R(s[2]), R(s[3]), R(s[4]), R(s[5]), R(s[6]), R(s[7]),
               R(s[8]), R(s[9]), R(s[10]), R(s[11]), R(s[12]), R(s[13]),
               R(s[14]), R(s[15]), R(s[16]))

\* The operands of the matrix_mul test and its expected product.
M1to16 == MatOf(<<1, 2, 3, 4, 5, 6, 7, 8, 9, 10, 11, 12, 13, 14, 15, 16>>)
M16to1 == MatOf(<<16, 15, 14, 13, 12, 11, 10, 9, 8, 7, 6, 5, 4, 3, 2, 1>>)
MulExpected ==
    MatOf(<<80, 70, 60, 50, 240, 214, 188, 162,
            400, 358, 316, 274, 560, 502, 444, 386>>)

\* The matrices multiplied: the identity, the two of the test, a translation,
\* a scaling by halves, a shear with negative entries, and zero.
MatInputs ==
    {Matrix4Identity, M1to16, M16to1,
     MatOf(<<1, 0, 0, 0, 0, 1, 0, 0, 0, 0, 1, 0, 2, -3, 5, 1>>),
     [Matrix4Identity EXCEPT !.m11 = Frac(1, 2), !.m22 = Frac(3, 2), !.m33 = R(2)],
     MatOf(<<1, -2, 0, 3, 0, 1, 4, 0, -1, 0, 1, 0, 0, 5, 0, -1>>),
     MatOf(<<0, 0, 0, 0, 0, 0, 0, 0, 0, 0, 0, 0, 0, 0, 0, 0>>)}

InitMat ==
    /\ ma \in MatInputs
    /\ mb \in MatInputs
    /\ mprod = <<>>
    /\ msteps = 0
    /\ IdleDev /\ IdleIns /\ IdleAux

\* let result = a * b.
Multiply ==
    /\ mprod = <<>>
    /\ mprod' = Matrix4Mul(ma, mb)
    /\ UNCHANGED <<ma, mb, msteps, devVars, insVars, auxVars>>

\* The product becomes the left operand of a further product, as in
\* world * view * projection.
Chain ==
    /\ mprod # <<>>
    /\ msteps < MaxMatSteps
    /\ ma' = mprod
    /\ mb' \in MatInputs
    /\ mprod' = <<>>
    /\ msteps' = msteps + 1
    /\ UNCHANGED <<devVars, insVars, auxVars>>

NextMat == Multiply \/ Chain
SpecMat == InitMat /\ [][NextMat]_vars

----------------------------------------------------------------------------
(* The inside test as a state machine (SpecInside).                        *)

\* The triangle of the inside-test property, the same wound the other way,
\* a scalene one, one with fractional vertices, and a collinear one.
T10 == <<Vx(R(0), R(0), R(0)), Vx(R(10), R(0), R(0)), Vx(R(0), R(10), R(0))>>
InsideTris ==
    {T10,
     <<Vx(R(0), R(0), R(0)), Vx(R(0), R(10), R(0)), Vx(R(10), R(0), R(0))>>,
     <<Vx(R(2), R(1), R(0)), Vx(R(9), R(3), R(0)), Vx(R(4), R(8), R(0))>>,
     <<Vx(Frac(1, 2), Frac(-3, 4), R(0)), Vx(Frac(21, 2), R(2), R(0)),
       Vx(Frac(7, 3), Frac(19, 2), R(0))>>,
     <<Vx(R(0), R(0), R(0)), Vx(R(2), R(1), R(0)), Vx(R(6), R(3), R(0))>>}

InitInside ==
    /\ tri \in InsideTris
    /\ pix \in (0 .. GridMax) \X (0 .. GridMax)
    /\ cls = "none"
    /\ wts = <<>>
    /\ IdleDev /\ IdleMat /\ IdleAux

\* The weights and the inside test of draw_triangle at the pixel pix.
Classify ==
    /\ cls = "none"
    /\ wts' = Weights(tri[1], tri[2], tri[3], pix[1], pix[2])
    /\ cls' = IF InsideTest(wts') THEN "inside" ELSE "outside"
    /\ UNCHANGED <<tri, pix, devVars, matVars, auxVars>>

NextInside == Classify
SpecInside == InitInside /\ [][NextInside]_vars

----------------------------------------------------------------------------
(* Claims about the inside test and the Matrix4 product.                   *)

\* C8: for the triangle (0,0), (10,0), (0,10) the inside test classifies the
\* pixel (2,2) as inside and (9,9) as outside; a pixel (x, y) with x, y >= 0
\* is inside exactly when x + y <= 10.
C8_InsideTestOfT10 ==
    (tri = T10 /\ cls # "none") =>
        /\ (cls = "inside") <=> (pix[1] + pix[2] <= 10)
        /\ pix = <<2, 2>> => cls = "inside"
        /\ pix = <<9, 9>> => cls = "outside"

\* C8 witness: the pixel (2,2) of that triangle was classified inside.
C8_Witness == tri = T10 /\ pix = <<2, 2>> /\ cls = "inside"

\* The field of row i and column j.
FieldName(i, j) ==
    <<<<"m11", "m12", "m13", "m14">>, <<"m21", "m22", "m23", "m24">>,
      <<"m31", "m32", "m33", "m34">>, <<"m41", "m42", "m43", "m44">>>>[i][j]
Entry(m, i, j) == m[FieldName(i, j)]

\* The sum over k = 1..n of A(i,k) * B(k,j).
RECURSIVE RowCol(_, _, _, _, _)
RowCol(a, b, i, j, n) ==
    IF n = 0 THEN R(0)
    ELSE RAdd(RowCol(a, b, i, j, n - 1), RMul(Entry(a, i, n), Entry(b, n, j)))

\* C9: Matrix4 multiplication is the row-major matrix product: entry (i,j) of
\* A * B is the sum over k of A(i,k) * B(k,j), and rows [1..16] times rows
\* [16..1] is [80,70,60,50, 240,214,188,162, 400,358,316,274, 560,502,444,386].
C9_MulIsMatrixProduct ==
    mprod # <<>> =>
        /\ \A i \in 1 .. 4, j \in 1 .. 4 :
              Entry(mprod, i, j) = RowCol(ma, mb, i, j, 4)
        /\ (ma = M1to16 /\ mb = M16to1) => mprod = MulExpected

\* C9 witness: the product of the matrix_mul test was computed.
C9_Witness == ma = M1to16 /\ mb = M16to1 /\ mprod = MulExpected

\* C10: Matrix4::identity() is neutral on both sides: identity * M = M and
\* M * identity = M.
C10_IdentityNeutral ==
    mprod # <<>> =>
        /\ ma = Matrix4Identity => mprod = mb
        /\ mb = Matrix4Identity => mprod = ma

\* C10 witness: a matrix that is not the identity was multiplied by the
\* identity on the right and came out unchanged.
C10_Witness ==
    /\ mb = Matrix4Identity /\ ma = M1to16 /\ mprod = ma

----------------------------------------------------------------------------
(* Device::project as a state machine (SpecProject).                       *)

\* The points projected: the origin, the four quadrants, and depths on both
\* sides of the plane w = 0 of the perspective matrices below.
ProjCoords ==
    {Vector3New(R(0), R(0), R(0)), Vector3New(Frac(1, 4), Frac(1, 2), R(1)),
     Vector3New(Frac(-1, 2), Frac(1, 4), R(2)), Vector3New(R(1), R(-1), R(-1)),
     Vector3New(Frac(-1, 4), Frac(-1, 3), R(3))}

\* The transforms: the identity, a translation, a scaling, and two with a
\* perspective column (w = z + 2 and w = 1 - z, the latter 0 at z = 1).
ProjMats ==
    {Matrix4Identity,
     MatOf(<<1, 0, 0, 0, 0, 1, 0, 0, 0, 0, 1, 0, 1, -1, 2, 1>>),
     [Matrix4Identity EXCEPT !.m11 = Frac(1, 2), !.m22 = Frac(-3, 2)],
     MatOf(<<1, 0, 0, 0, 0, 1, 0, 0, 0, 0, 1, 1, 0, 0, 0, 2>>),
     MatOf(<<2, 0, 0, 0, 0, 2, 0, 0, 0, 0, 1, -1, 0, 0, -1, 1>>)}

InitProject ==
    /\ InitDev(TriWidth, TriHeight)
    /\ overflow_checks = FALSE
    /\ coords \in ProjCoords \X ProjCoords
    /\ trans \in ProjMats
    /\ screen = <<>>
    /\ IdleMat /\ IdleIns /\ IdleMesh /\ IdleVec /\ IdleRen

\* self.project(&v, &transform_mat) of two vertices, as render does per face.
Project ==
    /\ screen = <<>>
    /\ screen' = <<DevProject(Dev, coords[1], trans), DevProject(Dev, coords[2], trans)>>
    /\ UNCHANGED <<coords, trans, devVars, matVars, insVars, meshVars, vecVars,
                   renVars>>

NextProject == Project
SpecProject == InitProject /\ [][NextProject]_vars

\* The perspective-divided coordinates of the i-th point.
Ndc(i) == TransformCoordinate(coords[i], trans)

\* C11: project maps a point whose perspective-divided coordinates are
\* (nx, ny, nz) to (nx * width + width/2, -ny * height + height/2, nz): NDC
\* (0,0) lands on the buffer centre, a larger NDC y gives a smaller screen y,
\* and the third component is the divided depth unchanged.
C11_ProjectMapsNdcToScreen ==
    screen # <<>> =>
        /\ \A i \in 1 .. 2 :
              /\ screen[i].x = RAdd(RMul(Ndc(i).x, R(width)), Frac(width, 2))
              /\ screen[i].y = RAdd(RNeg(RMul(Ndc(i).y, R(height))), Frac(height, 2))
              /\ screen[i].z = Ndc(i).z
              /\ (Ndc(i).x = R(0) /\ Ndc(i).y = R(0)) =>
                    (screen[i].x = Frac(width, 2) /\ screen[i].y = Frac(height, 2))
        /\ RGt(Ndc(1).y, Ndc(2).y) => RLt(screen[1].y, screen[2].y)

\* C11 witness: two points were projected through a perspective transform,
\* one to the buffer centre and the other, of larger NDC y, above it.
C11_Witness ==
    /\ screen # <<>>
    /\ trans.m34 # R(0)
    /\ Ndc(1).x = R(0) /\ Ndc(1).y = R(0)
    /\ screen[1] = Vector3New(Frac(width, 2), Frac(height, 2), Ndc(1).z)
    /\ RGt(Ndc(2).y, R(0)) /\ RLt(screen[2].y, screen[1].y)

----------------------------------------------------------------------------
(* Further claims about the device under draw_triangle calls (SpecTri).    *)

\* C12: after clear(color), whatever draw calls preceded it, every entry of
\* the back buffer equals color and every entry of the depth buffer equals
\* 0.0, and width, height and the buffer lengths are those of Device::new.
C12_ClearResetsBothBuffers ==
    (log = <<>> /\ ~fault) =>
        /\ \A o \in DOMAIN backbuffer : backbuffer[o] = clearColor
        /\ \A o \in DOMAIN depthbuffer : depthbuffer[o] = R(0)
        /\ width = TriWidth /\ height = TriHeight
        /\ DOMAIN backbuffer = Offsets(TriWidth, TriHeight)
        /\ DOMAIN depthbuffer = Offsets(TriWidth, TriHeight)

\* C12 witness: a clear to 0xff222222 wiped a frame of MaxTriDraws draw calls.
C12_Witness ==
    /\ log = <<>> /\ erased = MaxTriDraws
    /\ clearColor = <<255, 34, 34, 34>>
    /\ \A o \in DOMAIN backbuffer : backbuffer[o] = clearColor

\* A step that is one draw_triangle call, and the triangle it drew.
IsTriDraw == Len(log') = Len(log) + 1 /\ log'[Len(log')].op = "tri"
DrawnTri == <<log'[Len(log')].v0, log'[Len(log')].v1, log'[Len(log')].v2>>

\* The pixel xy lies in the box of the loops of draw_triangle.
InBox(box, xy) ==
    /\ box.xlo <= xy[1] /\ xy[1] < box.xhi
    /\ box.ylo <= xy[2] /\ xy[2] < box.yhi

\* C13: for any three vertices, including ones with negative coordinates or
\* coordinates beyond the screen, draw_triangle only visits pixels with
\* 0 <= x < width and 0 <= y < height, so every offset it reads or writes is
\* below width * height (no index is out of range), and the pixels outside
\* the clamped bounding box are left unchanged.
C13_TriangleStaysOnScreen ==
    [][IsTriDraw =>
        LET t == DrawnTri
            box == BBox(Dev, t[1], t[2], t[3])
        IN  /\ ~fault'
            /\ 0 <= box.xlo /\ box.xhi <= width
            /\ 0 <= box.ylo /\ box.yhi <= height
            /\ \A x \in box.xlo .. (box.xhi - 1), y \in box.ylo .. (box.yhi - 1) :
                  y * width + x \in 0 .. (width * height - 1)
            /\ \A xy \in Pixels :
                  ~InBox(box, xy) =>
                      /\ backbuffer'[PixelOffset(xy)] = backbuffer[PixelOffset(xy)]
                      /\ depthbuffer'[PixelOffset(xy)] = depthbuffer[PixelOffset(xy)]
    ]_vars

\* C13 witness: a triangle with a negative vertex and vertices beyond both
\* far edges was drawn over a frame another triangle had written to, and
\* did not fault.
C13_Witness ==
    /\ Len(log) = 2 /\ ~fault
    /\ RLt(log[2].v0.x, R(0)) /\ RGt(log[2].v1.x, R(width))
    /\ RGt(log[2].v2.y, R(height))
    /\ \E xy \in Pixels : depthbuffer[PixelOffset(xy)] = ZAt(LogTri(1), xy)
                           /\ RGt(ZAt(LogTri(1), xy), R(0))

----------------------------------------------------------------------------
(* Mesh::shell and the vertex lookups of render (SpecShell).               *)

InitShell ==
    /\ slices \in 1 .. MaxSlices
    /\ stacks \in 1 .. MaxStacks
    /\ mesh = <<>>
    /\ fi = 0
    /\ IdleDev /\ IdleMat /\ IdleIns /\ IdleProj /\ IdleVec /\ IdleRen

\* let mesh = Mesh::shell(.., slices, stacks).
Shell ==
    /\ mesh = <<>>
    /\ mesh' = MeshShell(slices, stacks)
    /\ UNCHANGED <<slices, stacks, fi, devVars, matVars, insVars, projVars, vecVars,
                   renVars>>

\* One iteration of `for face in &mesh.faces` of render: the three lookups
\* mesh.vertices[face.a], [face.b], [face.c]; a lookup out of range panics.
IndexFace ==
    /\ mesh # <<>> /\ ~fault
    /\ fi < Len(mesh.faces)
    /\ LET face == mesh.faces[fi + 1] IN
       IF face.a < mesh.nvertices /\ face.b < mesh.nvertices /\ face.c < mesh.nvertices
       THEN fi' = fi + 1 /\ fault' = FALSE
       ELSE fi' = fi /\ fault' = TRUE
    /\ UNCHANGED <<slices, stacks, mesh, matVars, insVars, projVars, vecVars, renVars,
                   width, height, backbuffer, depthbuffer, overflow_checks,
                   clearColor, log, plots, erased>>

NextShell == Shell \/ IndexFace
SpecShell == InitShell /\ [][NextShell]_vars

\* C14: for all slices >= 1 and stacks >= 1, every face index (a, b, c) of
\* the mesh returned by Mesh::shell(.., slices, stacks) is below the number
\* of vertices of that mesh, so render can index mesh.vertices with it.
C14_ShellIndicesValid ==
    mesh # <<>> =>
        /\ \A i \in 1 .. Len(mesh.faces) :
              /\ mesh.faces[i].a < mesh.nvertices
              /\ mesh.faces[i].b < mesh.nvertices
              /\ mesh.faces[i].c < mesh.nvertices
        /\ ~fault

----------------------------------------------------------------------------
(* Vector3::cross as a state machine (SpecCross).                          *)

\* The operands: the two of the cross test, the three unit vectors, zero,
\* and vectors with negative and fractional components.
CrossInputs ==
    {Vector3New(R(2), R(3), R(4)), Vector3New(R(5), R(6), R(7)),
     Vector3New(R(1), R(0), R(0)), Vector3New(R(0), R(1), R(0)),
     Vector3New(R(0), R(0), R(1)), Vector3New(R(0), R(0), R(0)),
     Vector3New(R(-1), Frac(1, 2), R(3)), Vector3New(Frac(-2, 3), R(-4), Frac(5, 2))}

InitCross ==
    /\ va \in CrossInputs
    /\ vb \in CrossInputs
    /\ vc = <<>>
    /\ IdleDev /\ IdleMat /\ IdleIns /\ IdleProj /\ IdleMesh /\ IdleRen

\* let c = a.cross(b), and b.cross(a).
Cross ==
    /\ vc = <<>>
    /\ vc' = <<Vector3Cross(va, vb), Vector3Cross(vb, va)>>
    /\ UNCHANGED <<va, vb, devVars, matVars, insVars, projVars, meshVars, renVars>>

NextCross == Cross
SpecCross == InitCross /\ [][NextCross]_vars

\* C16: Vector3::cross is anti-commutative, cross(a, b) == -cross(b, a) in
\* every component, and cross((2,3,4), (5,6,7)) == (-3, 6, -3).
C16_CrossAntiCommutative ==
    vc # <<>> =>
        /\ vc[1].x = RNeg(vc[2].x)
        /\ vc[1].y = RNeg(vc[2].y)
        /\ vc[1].z = RNeg(vc[2].z)
        /\ (va = Vector3New(R(2), R(3), R(4)) /\ vb = Vector3New(R(5), R(6), R(7)))
              => vc[1] = Vector3New(R(-3), R(6), R(-3))

\* C16 witness: the cross product of the test was computed, and it is not
\* zero.
C16_Witness ==
    /\ va = Vector3New(R(2), R(3), R(4)) /\ vb = Vector3New(R(5), R(6), R(7))
    /\ vc # <<>>
    /\ vc[1] = Vector3New(R(-3), R(6), R(-3))
    /\ vc[2] = Vector3New(R(3), R(-6), R(3))

----------------------------------------------------------------------------
(* A further claim about Device::plot (SpecPlot).                          *)

\* floor(255 * c) of a finite coverage c >= 0.
Floor255(c) == (255 * c[1]) \div c[2]

\* C17: every pixel written by plot with a coverage c in [0,1] is an opaque
\* gray pixel: its alpha byte is 0xff and its red, green and blue bytes all
\* equal floor(255 * c), a value in 0..255, so no channel spills into a
\* neighbouring channel.
C17_PlotWritesOpaqueGray ==
    \A i \in 1 .. Len(plots) :
        (/\ i = Len(plots)
         /\ ~OffBuffer(plots[i].x, plots[i].y)
         /\ RGe(plots[i].c, R(0)) /\ RLe(plots[i].c, R(1))) =>
            /\ Floor255(plots[i].c) \in 0 .. 255
            /\ backbuffer[plots[i].y * width + plots[i].x] =
                   <<255, Floor255(plots[i].c), Floor255(plots[i].c),
                     Floor255(plots[i].c)>>

\* C17 witness: plot wrote a pixel with coverage 999/1000, gray 254.
C17_Witness ==
    /\ Len(plots) = 1
    /\ ~OffBuffer(plots[1].x, plots[1].y)
    /\ plots[1].c = Frac(999, 1000)
    /\ backbuffer[plots[1].y * width + plots[1].x] = <<255, 254, 254, 254>>

----------------------------------------------------------------------------
(* The depth test over a frame of draw_triangle calls (SpecTri).           *)

\* 0.0 and the interpolated depths at xy of the triangles drawn since the
\* last clear whose inside test passed there.
DepthsAt(xy) ==
    {R(0)} \cup {ZAt(LogTri(i), xy) :
                   i \in {k \in 1 .. Len(log) : Covers(LogTri(k), xy)}}

\* The greatest of a finite set of depths.
MaxDepth(S) == CHOOSE m \in S : \A z \in S : RGe(m, z)

DepthIsMaxOfDrawn ==
    ~fault => \A xy \in Pixels : depthbuffer[PixelOffset(xy)] = MaxDepth(DepthsAt(xy))

\* A draw_triangle step lowers no entry of the depth buffer.
DepthNeverDecreases ==
    IsTriDraw =>
        \A o \in DOMAIN depthbuffer : RGe(depthbuffer'[o], depthbuffer[o])

\* C18: between two clears the depth buffer is monotone under any sequence
\* of draw_triangle calls: no entry ever decreases, and after the sequence
\* each entry equals the maximum of 0.0 and the interpolated depths of all
\* drawn triangles whose inside test passed at that pixel (nearest wins).
C18_DepthBufferMonotone == []DepthIsMaxOfDrawn /\ [][DepthNeverDecreases]_vars

\* C18 witness: two triangles were drawn over one pixel, the nearer first,
\* and the pixel holds the depth of the first.
C18_Witness ==
    /\ Len(log) = 2
    /\ \E xy \in Pixels :
          /\ Covers(LogTri(1), xy) /\ Covers(LogTri(2), xy)
          /\ RGt(ZAt(LogTri(1), xy), ZAt(LogTri(2), xy))
          /\ RGt(ZAt(LogTri(2), xy), R(0))
          /\ depthbuffer[PixelOffset(xy)] = ZAt(LogTri(1), xy)

\* C19: the depth test is strict: when a draw_triangle call produces at a
\* pixel an interpolated depth equal to the stored depth, both the colour and
\* the depth of that pixel are left unchanged, so among triangles of equal
\* depth the one drawn first keeps the pixel.
C19_EqualDepthKeepsPixel ==
    [][IsTriDraw =>
        \A xy \in Pixels :
            (/\ Covers(DrawnTri, xy)
             /\ ZAt(DrawnTri, xy) = depthbuffer[PixelOffset(xy)]) =>
                /\ backbuffer'[PixelOffset(xy)] = backbuffer[PixelOffset(xy)]
                /\ depthbuffer'[PixelOffset(xy)] = depthbuffer[PixelOffset(xy)]
    ]_vars

\* C19 witness: two triangles of different colours and equal positive depth
\* at a pixel were drawn, and the pixel holds the colour of the first.
C19_Witness ==
    /\ Len(log) = 2
    /\ \E xy \in Pixels :
          /\ Covers(LogTri(1), xy) /\ Covers(LogTri(2), xy)
          /\ ZAt(LogTri(1), xy) = ZAt(LogTri(2), xy)
          /\ RGt(ZAt(LogTri(1), xy), R(0))
          /\ ColorAt(LogTri(1), xy) # ColorAt(LogTri(2), xy)
          /\ backbuffer[PixelOffset(xy)] = ColorAt(LogTri(1), xy)
          /\ depthbuffer[PixelOffset(xy)] = ZAt(LogTri(1), xy)

----------------------------------------------------------------------------
(* A further claim about the barycentric weights (SpecInside).             *)

\* The signed area A = edge(v0, v1, v2) of the triangle tri.
SignedArea == edge_func(tri[1], tri[2], tri[3])

\* edge(v1,v2,p) + edge(v2,v0,p) + edge(v0,v1,p) at the pixel pix.
EdgeSum ==
    LET p == Pt(R(pix[1]), R(pix[2])) IN
    RAdd(RAdd(edge_func(tri[2], tri[3], p), edge_func(tri[3], tri[1], p)),
         edge_func(tri[1], tri[2], p))

\* C20: for every triangle with non-zero signed area A = edge(v0,v1,v2) and
\* every pixel p, the three barycentric weights computed in draw_triangle
\* sum to 1, i.e. edge(v1,v2,p) + edge(v2,v0,p) + edge(v0,v1,p) == A.
C20_WeightsSumToOne ==
    (cls # "none" /\ SignedArea # R(0)) =>
        /\ RAdd(RAdd(wts[1], wts[2]), wts[3]) = R(1)
        /\ EdgeSum = SignedArea

\* C20 witness: the weights of a pixel outside the triangle with fractional
\* vertices were computed; one is negative and they sum to 1.
C20_Witness ==
    /\ cls = "outside"
    /\ SignedArea # R(0)
    /\ tri[1].x = Frac(1, 2)
    /\ \E i \in 1 .. 3 : RLt(wts[i], R(0))
    /\ RAdd(RAdd(wts[1], wts[2]), wts[3]) = R(1)

----------------------------------------------------------------------------
(* Device::render as a state machine (SpecRender).                         *)

\* The cameras: on the z axis at 3 and at 1, looking at the origin, with
\* tan(fov / 2) = 1/2 and the znear and zfar of main.
Cameras ==
    {[position |-> Vector3New(R(0), R(0), R(3)), target |-> Vector3New(R(0), R(0), R(0)),
      tan_half_fov |-> Frac(1, 2), znear |-> Frac(1, 100), zfar |-> R(1)],
     [position |-> Vector3New(R(0), R(0), R(1)), target |-> Vector3New(R(0), R(0), R(0)),
      tan_half_fov |-> Frac(1, 2), znear |-> Frac(1, 100), zfar |-> R(1)]}

\* The meshes: the triangle and the cube of main, the cube moved away from
\* the camera, and the triangle scaled by two.
MeshSet ==
    {MeshTriangle, MeshCube,
     [MeshCube EXCEPT !.position = Vector3New(R(0), R(0), R(-2))],
     [MeshTriangle EXCEPT !.scale = Vector3New(R(2), R(2), R(2))]}

\* The lists of at most n meshes.
RECURSIVE MeshLists(_)
MeshLists(n) ==
    IF n = 0 THEN {<<>>}
    ELSE MeshLists(n - 1)
         \cup {Append(l, m) : l \in {k \in MeshLists(n - 1) : Len(k) = n - 1},
                              m \in MeshSet}

InitRender ==
    /\ InitDev(LineWidth, LineHeight)
    /\ overflow_checks \in BOOLEAN
    /\ camera \in Cameras
    /\ meshes \in MeshLists(MaxMeshes)
    /\ rpc = "meshes" /\ mi = 0 /\ rfi = 0
    /\ transform_mat = <<>> /\ visits = <<>> /\ lines = <<>>
    /\ IdleMat /\ IdleIns /\ IdleProj /\ IdleMesh /\ IdleVec

\* `for mesh in meshes`: the next mesh and its transform_mat.
BeginMesh ==
    /\ rpc = "meshes" /\ ~fault
    /\ mi < Len(meshes)
    /\ mi' = mi + 1
    /\ rfi' = 0
    /\ transform_mat' = RenderTransform(Dev, camera, meshes[mi + 1])
    /\ rpc' = "faces"
    /\ UNCHANGED <<camera, meshes, visits, lines, devVars, matVars, insVars,
                   projVars, meshVars, vecVars>>

\* One iteration of `for face in &mesh.faces`.
RenderFace ==
    /\ rpc = "faces" /\ ~fault
    /\ rfi < Len(meshes[mi].faces)
    /\ LET m == meshes[mi]
           face == m.faces[rfi + 1]
       IN  /\ SetDev(DevRenderFace(Dev, m, face, transform_mat))
           /\ lines' = IF FaceInRange(m, face)
                       THEN RenderFaceLines(Dev, m, face, transform_mat) ELSE <<>>
    /\ rfi' = rfi + 1
    /\ visits' = Append(visits, <<mi, rfi + 1>>)
    /\ UNCHANGED <<camera, meshes, rpc, mi, transform_mat, overflow_checks,
                   clearColor, log, plots, erased, matVars, insVars, projVars,
                   meshVars, vecVars>>

\* The faces of the mesh are exhausted.
EndMesh ==
    /\ rpc = "faces" /\ ~fault
    /\ rfi = Len(meshes[mi].faces)
    /\ rpc' = "meshes"
    /\ UNCHANGED <<camera, meshes, mi, rfi, transform_mat, visits, lines, devVars,
                   matVars, insVars, projVars, meshVars, vecVars>>

\* The meshes are exhausted: render returns.
RenderReturn ==
    /\ rpc = "meshes" /\ ~fault
    /\ mi = Len(meshes)
    /\ rpc' = "done"
    /\ UNCHANGED <<camera, meshes, mi, rfi, transform_mat, visits, lines, devVars,
                   matVars, insVars, projVars, meshVars, vecVars>>

NextRender == BeginMesh \/ RenderFace \/ EndMesh \/ RenderReturn

\* The position of render in its two loops.
ctlVars == <<rpc, mi, rfi>>

\* The control flow of NextRender alone: the step render takes next when it
\* has neither returned nor panicked.  It is enabled exactly where
\* NextRender is, and every NextRender step is one of its steps
\* (RenderStepsAdvance), so fairness on it is fairness on NextRender with
\* an enabling condition that needs no pixel to be computed.
RenderControl ==
    /\ ~fault /\ rpc \in {"meshes", "faces"}
    /\ rpc' = IF rpc = "meshes"
              THEN IF mi < Len(meshes) THEN "faces" ELSE "done"
              ELSE IF rfi < Len(meshes[mi].faces) THEN "faces" ELSE "meshes"
    /\ mi' = IF rpc = "meshes" /\ mi < Len(meshes) THEN mi + 1 ELSE mi
    /\ rfi' = IF rpc = "meshes"
              THEN IF mi < Len(meshes) THEN 0 ELSE rfi
              ELSE IF rfi < Len(meshes[mi].faces) THEN rfi + 1 ELSE rfi

RenderStepsAdvance == [][NextRender => RenderControl]_vars

\* render is one sequential call on one thread: while it has a next step it
\* takes it.
SpecRender == InitRender /\ [][NextRender]_vars /\ WF_ctlVars(RenderControl)

\* a + b <= c + d for four i32 values, computed in halves so that no sum
\* leaves the integers of the model checker.
SumLe(a, b, c, d) ==
    LET h1 == (a \div 2) + (b \div 2)
        r1 == (a % 2) + (b % 2)
        h2 == (c \div 2) + (d \div 2)
        r2 == (c % 2) + (d % 2)
    IN  IF h1 = h2 THEN r1 <= r2
        ELSE IF h1 < h2 THEN TRUE
        ELSE h1 = h2 + 1 /\ r1 = 0 /\ r2 = 2

\* The loop over first..end takes at most |b - a| steps.
StepsWithin(first, end, a, b) ==
    \/ first >= end
    \/ SumLe(end, IF a < b THEN a ELSE b, IF a < b THEN b ELSE a, first)

\* The faces of the mesh list, in the order of the two loops.
RECURSIVE FacesFrom(_, _)
FacesFrom(i, j) ==
    IF i > Len(meshes) THEN <<>>
    ELSE IF j > Len(meshes[i].faces) THEN FacesFrom(i + 1, 1)
    ELSE <<<<i, j>>>> \o FacesFrom(i, j + 1)

RenderDone == rpc = "done"

\* No face is processed twice, and when render has returned every face has
\* been processed.
FacesOnce ==
    /\ \A i \in 1 .. Len(visits), j \in 1 .. Len(visits) :
          visits[i] = visits[j] => i = j
    /\ RenderDone => visits = FacesFrom(1, 1)

\* The loop of each draw_line_aa call of the last face took at most as
\* many steps as its endpoint pixel columns are apart.
LoopStepsBounded ==
    ~fault =>
        \A k \in 1 .. Len(lines) :
            LET l == LineLocals(lines[k][1], lines[k][2]) IN
            StepsWithin(LoopFirst(l), LoopEnd(l), l.xpxl1, l.xpxl2)

\* C15 as stated: render always runs to completion: for every camera and
\* every finite list of meshes with valid face indices it returns after
\* processing each face exactly once, each draw_line_aa call performing a
\* finite number of loop steps bounded by the distance between its endpoint
\* pixel columns.
C15_RenderRunsToCompletion ==
    <>RenderDone /\ []FacesOnce /\ []LoopStepsBounded

----------------------------------------------------------------------------
(* Zero-area triangles (SpecTri).                                          *)

\* The (x, y) of the three vertices lie on one line (or coincide): the cross
\* product of v1 - v0 and v2 - v0 is zero.
Collinear(t) ==
    RMul(RSub(t[2].x, t[1].x), RSub(t[3].y, t[1].y))
        = RMul(RSub(t[3].x, t[1].x), RSub(t[2].y, t[1].y))

\* Some weight of the triangle t at the pixel xy is +infinity, so that its
\* own >= 0.0 test passes.
SomeWeightInf(t, xy) ==
    \E i \in 1 .. 3 : Weights(t[1], t[2], t[3], xy[1], xy[2])[i] = <<1, 0>>

\* C21: draw_triangle called with a zero-area triangle (three collinear or
\* coincident vertices, A == 0) writes no pixel and changes no depth entry:
\* the division by A yields no pixel for which all three weights pass the
\* >= 0 test.
C21_ZeroAreaDrawsNothing ==
    [][(IsTriDraw /\ Collinear(DrawnTri)) =>
        LET t == DrawnTri IN
        /\ edge_func(t[1], t[2], t[3]) = R(0)
        /\ \A xy \in Pixels : ~InsideTest(Weights(t[1], t[2], t[3], xy[1], xy[2]))
        /\ backbuffer' = backbuffer
        /\ depthbuffer' = depthbuffer
        /\ ~fault']_vars

\* C21 witness: a triangle was drawn and wrote a pixel, then a zero-area
\* triangle was drawn whose loops visit that pixel with a weight of
\* +infinity, and the pixel still holds the depth of the first triangle.
C21_Witness ==
    /\ Len(log) = 2 /\ ~fault
    /\ ~Collinear(LogTri(1)) /\ Collinear(LogTri(2))
    /\ \E xy \in Pixels :
          /\ Covers(LogTri(1), xy)
          /\ RGt(ZAt(LogTri(1), xy), R(0))
          /\ xy \in Visited(LogTri(2))
          /\ SomeWeightInf(LogTri(2), xy)
          /\ depthbuffer[PixelOffset(xy)] = ZAt(LogTri(1), xy)
          /\ backbuffer[PixelOffset(xy)] = ColorAt(LogTri(1), xy)

====
